---- MODULE Spec2Model ----
(***************************************************************************)
(* Payoff analytics engine of the index payout planner (lib/instruments)   *)
(* and the editor handlers that build the legs handed to it.               *)
(*                                                                         *)
(* Numbers.  The source computes on IEEE-754 doubles.  Prices, strikes,    *)
(* premiums and P&L are modelled exactly, as integers counted in units of  *)
(* 1/10000 dollar (Cent = 100 units, Dollar = 10000 units), so that the    *)
(* sample prices of a curve around a whole-dollar price with a             *)
(* whole-percent range are integers.  The one place where the rounding of  *)
(* double arithmetic changes the control flow, the loop test of            *)
(* generatePayoffCurve after 100 additions of step, is modelled by         *)
(* FpOvershoot, the inputs for which the double sum ends above maxPrice.   *)
(***************************************************************************)
EXTENDS Integers, Sequences, FiniteSets, TLC

Cent == 100
Dollar == 100 * Cent

VARIABLES
    legs,             \* OptionLeg[]: the position handed to the engine
    underlyingPrice,  \* argument of calculateLegPayoff / calculateTotalPayoff
    currentPrice,     \* argument of the curve functions, in units
    range,            \* argument of generatePayoffCurve, in percent
    op,               \* the engine function called last ("none" before any call)
    arg,              \* index of the leg passed to calculateLegPayoff
    ret,              \* value returned by the call named by op
    pc,               \* position of the generatePayoffCurve loop
    price,            \* loop variable of generatePayoffCurve
    points,           \* points pushed so far by generatePayoffCurve
    clock,            \* Date.now(), in milliseconds
    selectedInstrument, \* Index: the instrument handed to the editor
    selectedStock,    \* Index: the stock picked in the search box, or "null"
    simulatedPrice,   \* Index: the price of the simulator
    activeGroupId,    \* Index: the stock group shown, or "null"
    searchQuery,      \* StockSearch: the text of the search box
    searchResults,    \* StockSearch: the stocks of the last response stored
    isSearching,      \* StockSearch: the spinner
    showResults,      \* StockSearch: the dropdown is open
    timer,            \* StockSearch: the pending debounce timer, <<q>> or <<>>
    inflight          \* StockSearch: the queries of the searches not yet answered

uiVars == <<clock, selectedInstrument, selectedStock, simulatedPrice, activeGroupId,
            searchQuery, searchResults, isSearching, showResults, timer, inflight>>

vars == <<legs, underlyingPrice, currentPrice, range, op, arg, ret, pc, price, points,
          uiVars>>

Max(a, b) == IF a >= b THEN a ELSE b
Abs(a) == IF a >= 0 THEN a ELSE -a

(***************************************************************************)
(* Instrument catalog.                                                     *)
(***************************************************************************)
instruments ==
    << [symbol |-> "SPX", family |-> "SPX", type |-> "index",        multiplier |-> 100],
       [symbol |-> "SPY", family |-> "SPX", type |-> "etf",          multiplier |-> 100],
       [symbol |-> "XSP", family |-> "SPX", type |-> "index",        multiplier |-> 100],
       [symbol |-> "ES",  family |-> "SPX", type |-> "future",       multiplier |-> 50],
       [symbol |-> "MES", family |-> "SPX", type |-> "micro-future", multiplier |-> 5],
       [symbol |-> "NDX", family |-> "NDX", type |-> "index",        multiplier |-> 100],
       [symbol |-> "QQQ", family |-> "NDX", type |-> "etf",          multiplier |-> 100],
       [symbol |-> "NQ",  family |-> "NDX", type |-> "future",       multiplier |-> 20],
       [symbol |-> "MNQ", family |-> "NDX", type |-> "micro-future", multiplier |-> 2] >>

getInstrumentBySymbol(symbol) ==
    CHOOSE i \in {instruments[k] : k \in 1..Len(instruments)} : i.symbol = symbol

(***************************************************************************)
(* Editor: the legs the form builds.  id is the clock reading Date.now()   *)
(* of the moment the leg is added.                                         *)
(***************************************************************************)
handleAddLeg(now, instrument, legType, optionType, side, strike, premium, quantity) ==
    [ id         |-> now,
      instrument |-> instrument,
      legType    |-> legType,
      optionType |-> optionType,
      side       |-> side,
      strike     |-> strike,
      premium    |-> IF legType = "future" THEN 0 ELSE premium,
      quantity   |-> quantity ]

handleAddFutureLeg(now, instrument, futureSide, entryPrice, quantity) ==
    [ id         |-> now,
      instrument |-> instrument,
      legType    |-> "future",
      optionType |-> "call",
      side       |-> futureSide,
      strike     |-> entryPrice,
      premium    |-> 0,
      quantity   |-> quantity ]

\* Input positions: sequences of legs, numbered in the order they were added.
SeqsUpTo(S, n) == UNION { [1..k -> S] : k \in 0..n }

WithIds(s) == [i \in 1..Len(s) |-> [s[i] EXCEPT !.id = i]]

\* No engine function has been called yet.
Idle ==
    /\ op = "none" /\ arg = 0 /\ ret = 0
    /\ pc = "idle" /\ price = 0 /\ points = <<>>

None == "null"

DEFAULT_PRICES ==
    [ SPX |-> 5850 * Dollar, SPY |-> 585 * Dollar, XSP |-> 585 * Dollar,
      ES  |-> 5850 * Dollar, MES |-> 5850 * Dollar,
      NDX |-> 20500 * Dollar, QQQ |-> 505 * Dollar,
      NQ  |-> 20500 * Dollar, MNQ |-> 20500 * Dollar ]

STOCK_DEFAULT_PRICE == 150 * Dollar

\* The page as constructed: the useState initial values of Index and
\* StockSearch, no timer set and no search started.
Mounted ==
    /\ clock = 0
    /\ selectedInstrument = getInstrumentBySymbol("SPX")
    /\ selectedStock = None
    /\ simulatedPrice = DEFAULT_PRICES["SPX"]
    /\ activeGroupId = None
    /\ searchQuery = <<>>
    /\ searchResults = <<>>
    /\ isSearching = FALSE
    /\ showResults = FALSE
    /\ timer = <<>>
    /\ inflight = <<>>

(***************************************************************************)
(* Payoff engine.                                                          *)
(***************************************************************************)
calculateLegPayoff_LongOnly(leg, p) ==
    LET intrinsicValue == IF leg.optionType = "call"
                          THEN Max(0, p - leg.strike)
                          ELSE Max(0, leg.strike - p)
    IN  (intrinsicValue - leg.premium) * leg.quantity * leg.instrument.multiplier

calculateLegPayoff(leg, p) ==
    LET multiplier     == leg.instrument.multiplier
        intrinsicValue == IF leg.optionType = "call"
                          THEN Max(0, p - leg.strike)
                          ELSE Max(0, leg.strike - p)
        optionValue    == intrinsicValue - leg.premium
        positionPnL    == IF leg.side = "long" THEN optionValue ELSE -optionValue
    IN  positionPnL * leg.quantity * multiplier

RECURSIVE ReduceTotal(_, _, _, _)
ReduceTotal(legList, p, i, total) ==
    IF i > Len(legList) THEN total
    ELSE ReduceTotal(legList, p, i + 1, total + calculateLegPayoff(legList[i], p))

SameTerms(a, b) == [a EXCEPT !.id = 0] = [b EXCEPT !.id = 0]

RECURSIVE ReduceDistinct(_, _, _, _)
ReduceDistinct(legList, p, i, total) ==
    IF i > Len(legList) THEN total
    ELSE ReduceDistinct(legList, p, i + 1,
            IF \E j \in 1..(i - 1) : SameTerms(legList[j], legList[i])
            THEN total
            ELSE total + calculateLegPayoff(legList[i], p))

calculateTotalPayoff_Distinct(legList, p) == ReduceDistinct(legList, p, 1, 0)

calculateTotalPayoff_LastOnly(legList, p) ==
    IF legList = <<>> THEN 0 ELSE calculateLegPayoff(legList[Len(legList)], p)

calculateTotalPayoff(legList, p) == ReduceTotal(legList, p, 1, 0)

(***************************************************************************)
(* generatePayoffCurve.  currentPrice c is in units and range r in percent *)
(* (0.15 is 15); the inputs drawn below make c * (1 - r), c * (1 + r) and  *)
(* step whole numbers of units, so the divisions are exact.                *)
(***************************************************************************)
MinPrice(c, r) == (c * (100 - r)) \div 100
MaxPrice(c, r) == (c * (100 + r)) \div 100
Steps == 100
Step(c, r) == (MaxPrice(c, r) - MinPrice(c, r)) \div Steps

\* Math.round(x * 100) / 100: to the nearest cent, halves towards +infinity.
RoundCents_WholeDollars(x) == ((x + (Dollar \div 2)) \div Dollar) * Dollar

RoundCents(x) == ((x + (Cent \div 2)) \div Cent) * Cent

\* The <<currentPrice, range>> inputs of the model for which, in IEEE-754 double
\* arithmetic, minPrice plus 100 times step ends above maxPrice, so that the
\* loop test fails for the 101st sample and the curve has 100 points (outside
\* the model, for instance, 5850 at 0.15: the curve ends at 6709.95).  The
\* prices of the model, 2, 10 and 100 dollars, keep every sample and every
\* P&L off the half-cent ties where the rounding of a double decides
\* Math.round.
FpOvershoot ==
    { <<2 * Dollar, 20>>, <<2 * Dollar, 30>>, <<2 * Dollar, 50>>,
      <<10 * Dollar, 30>>,
      <<100 * Dollar, 10>>, <<100 * Dollar, 20>> }

\* price <= maxPrice, for the loop variable with exact value p.
LoopTest(p, c, r) ==
    \/ p < MaxPrice(c, r)
    \/ p = MaxPrice(c, r) /\ <<c, r>> \notin FpOvershoot

PayoffPoint(legList, p) ==
    [ price |-> RoundCents(p),
      pnl   |-> RoundCents(calculateTotalPayoff(legList, p)) ]

\* The loop of generatePayoffCurve, unrolled: the k-th iteration (from 0) reads
\* price = minPrice + k * step, and the loop ends at the first k whose price
\* fails the test.  With step = 0 no k fails and the loop does not end (see
\* CurveStep); the operator is applied for c # 0 and r # 0 only.
SamplePrice(c, r, k) == MinPrice(c, r) + k * Step(c, r)

NumSamples(c, r) ==
    LET failing == { k \in 0..(Steps + 1) : ~LoopTest(SamplePrice(c, r, k), c, r) }
    IN  CHOOSE k \in failing : \A j \in failing : k <= j

generatePayoffCurve(legList, c, r) ==
    [ i \in 1..NumSamples(c, r) |-> PayoffPoint(legList, SamplePrice(c, r, i - 1)) ]

(***************************************************************************)
(* The same loop, one iteration per step (SpecCurve).                      *)
(***************************************************************************)
MaxPoints == 102

OptionLeg(symbol, optionType, side, strike, premium, quantity) ==
    handleAddLeg(0, getInstrumentBySymbol(symbol), "option", optionType, side,
                 strike, premium, quantity)

LoopPositions ==
    { <<>>,
      <<OptionLeg("MNQ", "call", "long", 10 * Dollar, 50 * Cent, 1)>>,
      <<OptionLeg("SPX", "put", "short", 2 * Dollar, 3 * Cent, 2)>>,
      <<OptionLeg("MES", "call", "long", 9 * Dollar, 1 * Dollar, 1),
        OptionLeg("MES", "put", "long", 9 * Dollar, 1 * Dollar, 1)>> }

LoopPrices == { 0, 2 * Dollar, 10 * Dollar }
LoopRanges == { 0, 15, 30 }

InitCurve ==
    /\ \E s \in LoopPositions : legs = WithIds(s)
    /\ currentPrice \in LoopPrices
    /\ range \in LoopRanges
    /\ underlyingPrice = 0
    /\ Idle
    /\ Mounted

CurveCall ==
    /\ pc = "idle"
    /\ pc' = "loop"
    /\ op' = "generatePayoffCurve"
    /\ price' = MinPrice(currentPrice, range)
    /\ points' = <<>>
    /\ UNCHANGED <<legs, underlyingPrice, currentPrice, range, arg, ret, uiVars>>

CurveStep ==
    /\ pc = "loop"
    /\ LoopTest(price, currentPrice, range)
    /\ Len(points) < MaxPoints
    /\ points' = Append(points, PayoffPoint(legs, price))
    /\ price' = price + Step(currentPrice, range)
    /\ UNCHANGED <<legs, underlyingPrice, currentPrice, range, op, arg, ret, pc, uiVars>>

CurveReturn ==
    /\ pc = "loop"
    /\ ~LoopTest(price, currentPrice, range)
    /\ pc' = "done"
    /\ ret' = points
    /\ UNCHANGED <<legs, underlyingPrice, currentPrice, range, op, arg, price, points, uiVars>>

NextCurve == CurveCall \/ CurveStep \/ CurveReturn

SpecCurve == InitCurve /\ [][NextCurve]_vars

\* The loop and the operator compute the same curve.
LoopIsOperator ==
    (pc = "done") => ret = generatePayoffCurve(legs, currentPrice, range)

(***************************************************************************)
(* Claims about generatePayoffCurve (SpecCurve).                           *)
(***************************************************************************)
Returned == pc = "done" /\ op = "generatePayoffCurve"

\* C5: for a non-empty leg set, centerPrice > 0 and range > 0 the curve has
\* exactly 101 points at 100 equal steps from centerPrice * (1 - range) to
\* centerPrice * (1 + range), each holding the sample price and the total payoff
\* at that sample, both rounded to cents.
C5_Exactly101Points ==
    (Returned /\ legs # <<>> /\ currentPrice > 0 /\ range > 0) =>
        /\ Len(ret) = Steps + 1
        /\ \A i \in 1..Len(ret) :
             LET sample == MinPrice(currentPrice, range)
                           + (i - 1) * ((MaxPrice(currentPrice, range)
                                         - MinPrice(currentPrice, range)) \div Steps)
             IN  /\ ret[i].price = RoundCents(sample)
                 /\ ret[i].pnl = RoundCents(calculateTotalPayoff(legs, sample))
        /\ ret[Len(ret)].price = RoundCents(MaxPrice(currentPrice, range))

\* C6: for an empty leg set generatePayoffCurve returns an empty sequence, for
\* every centerPrice and range.
C6_EmptyLegsEmptyCurve ==
    (Returned /\ legs = <<>>) => ret = <<>>

C8_DegenerateTerminates ==
    (pc = "loop" /\ (currentPrice = 0 \/ range = 0)) => Len(points) <= Steps + 1

(***************************************************************************)
(* Curve analytics.                                                        *)
(***************************************************************************)
BreakevenRange == 30

Crosses_Strict(prev, curr) ==
    \/ prev.pnl < 0 /\ curr.pnl > 0
    \/ prev.pnl > 0 /\ curr.pnl < 0

\* prev.pnl < 0 && curr.pnl >= 0 || prev.pnl >= 0 && curr.pnl < 0
Crosses(prev, curr) ==
    \/ prev.pnl < 0 /\ curr.pnl >= 0
    \/ prev.pnl >= 0 /\ curr.pnl < 0

\* Math.round((prev.price + ratio * (curr.price - prev.price)) * 100) / 100 with
\* ratio = |prev.pnl| / (|prev.pnl| + |curr.pnl|).  The prices and P&L of the
\* points are whole cents; the quotient is taken on cents.
Interpolate(prev, curr) ==
    LET a == Abs(prev.pnl) \div Cent
        b == Abs(curr.pnl) \div Cent
        d == (curr.price - prev.price) \div Cent
    IN  prev.price + ((2 * a * d + (a + b)) \div (2 * (a + b))) * Cent

calculateBreakevens_ZeroPairs(legList, c) ==
    LET payoffCurve == generatePayoffCurve(legList, c, BreakevenRange)
        crossing    == { i \in 2..Len(payoffCurve) :
                           \/ Crosses(payoffCurve[i - 1], payoffCurve[i])
                           \/ payoffCurve[i - 1].pnl = 0 /\ payoffCurve[i].pnl = 0 }
        kth(k)      == CHOOSE i \in crossing :
                           Cardinality({ j \in crossing : j < i }) = k - 1
    IN  [ k \in 1..Cardinality(crossing) |->
            IF payoffCurve[kth(k) - 1].pnl = 0 /\ payoffCurve[kth(k)].pnl = 0
            THEN payoffCurve[kth(k) - 1].price
            ELSE Interpolate(payoffCurve[kth(k) - 1], payoffCurve[kth(k)]) ]

\* The scan for (i = 1; i < payoffCurve.length; i++): the pairs that cross, in
\* the order of the scan, each pushing its breakeven.
calculateBreakevens(legList, c) ==
    LET payoffCurve == generatePayoffCurve(legList, c, BreakevenRange)
        crossing    == { i \in 2..Len(payoffCurve) :
                           Crosses(payoffCurve[i - 1], payoffCurve[i]) }
        kth(k)      == CHOOSE i \in crossing :
                           Cardinality({ j \in crossing : j < i }) = k - 1
    IN  [ k \in 1..Cardinality(crossing) |->
            Interpolate(payoffCurve[kth(k) - 1], payoffCurve[kth(k)]) ]

(***************************************************************************)
(* Inputs of the analytics specification: legs placed around currentPrice. *)
(***************************************************************************)
MaxCurveLegs == 2

ZOOM_LEVELS == <<5, 10, 15, 20, 30, 50>>

AnalyticPrices == { 2 * Dollar, 100 * Dollar }

AnalyticLegs(c) ==
    LET Leg(optionType, side, strike, premium) ==
            handleAddLeg(0, getInstrumentBySymbol("MNQ"), "option", optionType, side,
                         strike, premium, 1)
    IN  { Leg("call", "long",  c,                    c \div 20),
          Leg("call", "long",  (c * 1004) \div 1000, c \div 1000),
          Leg("call", "long",  c,                    0),
          Leg("call", "long",  2 * c,                c \div 100),
          Leg("call", "short", c,                    c \div 20),
          Leg("call", "short", (c * 11) \div 10,     c \div 50),
          Leg("call", "short", c,                    0),
          Leg("put",  "long",  c,                    c \div 20),
          Leg("put",  "short", c,                    0) }

InitAnalytics ==
    /\ currentPrice \in AnalyticPrices
    /\ \E s \in SeqsUpTo(AnalyticLegs(currentPrice), MaxCurveLegs) : legs = WithIds(s)
    /\ underlyingPrice = 0 /\ range = 0
    /\ Idle
    /\ Mounted

CallGeneratePayoffCurve ==
    /\ op = "none"
    /\ \E z \in 1..Len(ZOOM_LEVELS) :
         /\ range' = ZOOM_LEVELS[z]
         /\ ret' = generatePayoffCurve(legs, currentPrice, ZOOM_LEVELS[z])
    /\ op' = "generatePayoffCurve"
    /\ UNCHANGED <<legs, underlyingPrice, currentPrice, arg, pc, price, points, uiVars>>

CallBreakevens ==
    /\ op = "none"
    /\ op' = "calculateBreakevens"
    /\ range' = BreakevenRange
    /\ ret' = calculateBreakevens(legs, currentPrice)
    /\ UNCHANGED <<legs, underlyingPrice, currentPrice, arg, pc, price, points, uiVars>>

NextAnalytics == CallGeneratePayoffCurve \/ CallBreakevens

SpecAnalytics == InitAnalytics /\ [][NextAnalytics]_vars

(***************************************************************************)
(* Claims about the curve analytics (SpecAnalytics).                       *)
(***************************************************************************)
Orders(n) == { f \in [1..n -> 1..n] : \A i, j \in 1..n : f[i] = f[j] => i = j }

Permuted(legList, f) == [ i \in 1..Len(legList) |-> legList[f[i]] ]

Reversed(legList) == [ i \in 1..Len(legList) |-> legList[Len(legList) + 1 - i] ]

SignChanges(curve) ==
    { i \in 2..Len(curve) : (curve[i - 1].pnl < 0) # (curve[i].pnl < 0) }

\* x is p0.price + |p0.pnl| / (|p0.pnl| + |p1.pnl|) * (p1.price - p0.price)
\* rounded to cents.
IsInterpolation(x, p0, p1) ==
    LET a   == Abs(p0.pnl) \div Cent
        den == (Abs(p0.pnl) + Abs(p1.pnl)) \div Cent
        num == a * ((p1.price - p0.price) \div Cent)
        off == (x - p0.price) \div Cent
    IN  /\ x % Cent = 0
        /\ 2 * off * den <= 2 * num + den
        /\ 2 * num + den < 2 * (off + 1) * den

\* C9: calculateBreakevens scans the +-30% curve left to right and returns, in
\* ascending order, exactly one value for each adjacent pair (p0, p1) with
\* p0.pnl < 0 <= p1.pnl or p1.pnl < 0 <= p0.pnl, the linear interpolation of the
\* crossing rounded to cents, and nothing for any other pair.
C9_BreakevenScan ==
    (op = "calculateBreakevens") =>
        LET curve == generatePayoffCurve(legs, currentPrice, 30)
            pairs == SignChanges(curve)
        IN  /\ Len(ret) = Cardinality(pairs)
            /\ \A k \in 1..(Len(ret) - 1) : ret[k] <= ret[k + 1]
            /\ \A i \in pairs :
                 IsInterpolation(ret[Cardinality({ j \in pairs : j <= i })],
                                 curve[i - 1], curve[i])

C9_Witness ==
    /\ op = "calculateBreakevens"
    /\ Len(ret) = 2 /\ ret[1] < ret[2]
    /\ \E i \in SignChanges(generatePayoffCurve(legs, currentPrice, 30)) :
         LET curve == generatePayoffCurve(legs, currentPrice, 30)
         IN  /\ curve[i - 1].pnl < 0 /\ curve[i].pnl > 0
             /\ ret[2] # curve[i - 1].price /\ ret[2] # curve[i].price
             /\ IsInterpolation(ret[2], curve[i - 1], curve[i])

\* C10: for a single long call (strike K, premium Prm >= 0, quantity 1) and a
\* currentPrice whose +-30% window contains K + Prm, calculateBreakevens returns
\* one value within 0.01 of K + Prm, also when K is not a sample of the curve.
C10_LongCallBreakeven ==
    ( /\ op = "calculateBreakevens"
      /\ Len(legs) = 1
      /\ legs[1].optionType = "call" /\ legs[1].side = "long"
      /\ legs[1].quantity = 1
      /\ MinPrice(currentPrice, 30) <= legs[1].strike + legs[1].premium
      /\ legs[1].strike + legs[1].premium <= MaxPrice(currentPrice, 30) )
    => /\ Len(ret) = 1
       /\ Abs(ret[1] - (legs[1].strike + legs[1].premium)) <= Cent

(***************************************************************************)
(* Inputs of the payoff specification.                                     *)
(***************************************************************************)
MaxLegs == 2
MaxQty == 2

PayoffInstruments == { getInstrumentBySymbol("SPX"), getInstrumentBySymbol("MES") }

PayoffLegs(instrument) ==
    { handleAddLeg(0, instrument, lt, ot, sd, 5850 * Dollar, 20 * Dollar, q) :
        lt \in {"option", "future"}, ot \in {"call", "put"},
        sd \in {"long", "short"}, q \in 1..MaxQty }
    \cup
    { handleAddFutureLeg(0, instrument, sd, 5850 * Dollar, q) :
        sd \in {"long", "short"}, q \in 1..MaxQty }

PayoffPrices == { 5700 * Dollar, 5850 * Dollar, 6000 * Dollar }

InitPayoff ==
    /\ \E instrument \in PayoffInstruments :
         \E s \in SeqsUpTo(PayoffLegs(instrument), MaxLegs) : legs = WithIds(s)
    /\ underlyingPrice \in PayoffPrices
    /\ currentPrice = 0 /\ range = 0
    /\ Idle
    /\ Mounted

CallLegPayoff ==
    /\ op = "none"
    /\ \E i \in 1..Len(legs) :
         /\ arg' = i
         /\ ret' = calculateLegPayoff(legs[i], underlyingPrice)
    /\ op' = "calculateLegPayoff"
    /\ UNCHANGED <<legs, underlyingPrice, currentPrice, range, pc, price, points, uiVars>>

CallTotalPayoff ==
    /\ op = "none"
    /\ op' = "calculateTotalPayoff"
    /\ arg' = 0
    /\ ret' = calculateTotalPayoff(legs, underlyingPrice)
    /\ UNCHANGED <<legs, underlyingPrice, currentPrice, range, pc, price, points, uiVars>>

NextPayoff == CallLegPayoff \/ CallTotalPayoff

SpecPayoff == InitPayoff /\ [][NextPayoff]_vars

(***************************************************************************)
(* Claims about calculateLegPayoff and calculateTotalPayoff (SpecPayoff).  *)
(***************************************************************************)
SpxLongCall(leg) ==
    /\ leg.instrument.symbol = "SPX" /\ leg.legType = "option"
    /\ leg.optionType = "call" /\ leg.side = "long"
    /\ leg.strike = 5850 * Dollar /\ leg.premium = 20 * Dollar /\ leg.quantity = 1

\* C1: for an option leg and a price p, calculateLegPayoff returns
\* s * (intrinsic - premium) * quantity * multiplier, intrinsic = max(0, p - strike)
\* for a call and max(0, strike - p) for a put, s = +1 long and -1 short; the SPX
\* long call 5850/20 pays -2000 at 5850 and 13000 at 6000.
C1_OptionLegPayoff ==
    (op = "calculateLegPayoff" /\ legs[arg].legType = "option") =>
        LET leg       == legs[arg]
            diff      == IF leg.optionType = "call"
                         THEN underlyingPrice - leg.strike
                         ELSE leg.strike - underlyingPrice
            intrinsic == IF diff > 0 THEN diff ELSE 0
            s         == IF leg.side = "long" THEN 1 ELSE -1
        IN  /\ ret = s * (intrinsic - leg.premium) * leg.quantity * leg.instrument.multiplier
            /\ (SpxLongCall(leg) /\ underlyingPrice = 5850 * Dollar) => ret = -2000 * Dollar
            /\ (SpxLongCall(leg) /\ underlyingPrice = 6000 * Dollar) => ret = 13000 * Dollar

C1_Witness ==
    /\ op = "calculateLegPayoff"
    /\ legs[arg].legType = "option" /\ legs[arg].side = "short"
    /\ legs[arg].optionType = "put" /\ legs[arg].quantity = 2
    /\ underlyingPrice < legs[arg].strike
    /\ ret = -2 * (150 - 20) * Dollar * legs[arg].instrument.multiplier

\* C2: for a future leg (strike = entry price, premium 0) calculateLegPayoff
\* returns (p - strike) * quantity * multiplier when long and
\* (strike - p) * quantity * multiplier when short, above and below the entry
\* price, whatever optionType holds.
C2_FutureLegPayoff ==
    (op = "calculateLegPayoff" /\ legs[arg].legType = "future") =>
        LET leg == legs[arg]
        IN  ret = (IF leg.side = "long"
                   THEN underlyingPrice - leg.strike
                   ELSE leg.strike - underlyingPrice)
                  * leg.quantity * leg.instrument.multiplier

RECURSIVE SumOverLegs(_, _, _)
SumOverLegs(legList, p, S) ==
    IF S = {} THEN 0
    ELSE LET i == CHOOSE j \in S : TRUE
         IN  calculateLegPayoff(legList[i], p) + SumOverLegs(legList, p, S \ {i})

\* C3: calculateTotalPayoff(legs, p) is the sum of calculateLegPayoff(leg, p)
\* over all legs of the list, legs with identical terms each counted, and 0 for
\* the empty list.
C3_TotalIsSum ==
    (op = "calculateTotalPayoff") =>
        /\ ret = SumOverLegs(legs, underlyingPrice, DOMAIN legs)
        /\ (legs = <<>> => ret = 0)

C3_Witness ==
    /\ op = "calculateTotalPayoff"
    /\ Len(legs) = 2 /\ SameTerms(legs[1], legs[2])
    /\ ret = 2 * calculateLegPayoff(legs[1], underlyingPrice)
    /\ ret # 0

(***************************************************************************)
(* calculateMaxProfit and calculateMaxLoss.  A result is 'unlimited', a    *)
(* number, or what Math.max() and Math.min() return for no arguments:      *)
(* -Infinity and Infinity.                                                 *)
(***************************************************************************)
Unlimited == [kind |-> "unlimited", value |-> 0]
Num(n) == [kind |-> "number", value |-> n]
NegInfinity == [kind |-> "-Infinity", value |-> 0]
PosInfinity == [kind |-> "Infinity", value |-> 0]

RiskRange == 50
TailLength == 5

\* Math.max(...payoffCurve.map(p => p.pnl))
MaxPnL(payoffCurve) ==
    IF payoffCurve = <<>> THEN NegInfinity
    ELSE Num(CHOOSE v \in { payoffCurve[i].pnl : i \in 1..Len(payoffCurve) } :
                 \A i \in 1..Len(payoffCurve) : payoffCurve[i].pnl <= v)

\* Math.min(...payoffCurve.map(p => p.pnl))
MinPnL(payoffCurve) ==
    IF payoffCurve = <<>> THEN PosInfinity
    ELSE Num(CHOOSE v \in { payoffCurve[i].pnl : i \in 1..Len(payoffCurve) } :
                 \A i \in 1..Len(payoffCurve) : payoffCurve[i].pnl >= v)

\* payoffCurve.slice(-5)
LastPoints(payoffCurve) ==
    LET n == Len(payoffCurve)
    IN  IF n <= TailLength THEN payoffCurve
        ELSE SubSeq(payoffCurve, n - TailLength + 1, n)

\* payoffCurve.slice(0, 5)
FirstPoints(payoffCurve) ==
    IF Len(payoffCurve) <= TailLength THEN payoffCurve
    ELSE SubSeq(payoffCurve, 1, TailLength)

IsIncreasing_Strict(lastPoints) ==
    \A i \in 2..Len(lastPoints) : lastPoints[i].pnl > lastPoints[i - 1].pnl

\* lastPoints.every((p, i) => i === 0 || p.pnl >= lastPoints[i - 1].pnl)
IsIncreasing(lastPoints) ==
    \A i \in 2..Len(lastPoints) : lastPoints[i].pnl >= lastPoints[i - 1].pnl

IsDecreasing_Strict(firstPoints) ==
    \A i \in 2..Len(firstPoints) : firstPoints[i].pnl < firstPoints[i - 1].pnl

\* firstPoints.every((p, i) => i === 0 || p.pnl <= firstPoints[i - 1].pnl)
IsDecreasing(firstPoints) ==
    \A i \in 2..Len(firstPoints) : firstPoints[i].pnl <= firstPoints[i - 1].pnl

\* x > 0 and x < 0 for a number or an infinity.
Positive(x) == x.kind = "Infinity" \/ (x.kind = "number" /\ x.value > 0)
Negative(x) == x.kind = "-Infinity" \/ (x.kind = "number" /\ x.value < 0)

calculateMaxProfit(legList, c) ==
    LET payoffCurve == generatePayoffCurve(legList, c, RiskRange)
        maxPnL      == MaxPnL(payoffCurve)
    IN  IF IsIncreasing(LastPoints(payoffCurve)) /\ Positive(maxPnL)
        THEN Unlimited
        ELSE maxPnL

calculateMaxLoss(legList, c) ==
    LET payoffCurve == generatePayoffCurve(legList, c, RiskRange)
        minPnL      == MinPnL(payoffCurve)
    IN  IF IsDecreasing(FirstPoints(payoffCurve)) /\ Negative(minPnL)
        THEN Unlimited
        ELSE minPnL

(***************************************************************************)
(* The risk specification: the two functions applied to positions placed   *)
(* around a positive or a negative currentPrice.                           *)
(***************************************************************************)
RiskPrices == AnalyticPrices \cup { -100 * Dollar }

InitRisk ==
    /\ currentPrice \in RiskPrices
    /\ \E s \in SeqsUpTo(AnalyticLegs(Abs(currentPrice)), MaxCurveLegs) :
           legs = WithIds(s)
    /\ underlyingPrice = 0 /\ range = 0
    /\ Idle
    /\ Mounted

CallMaxProfit ==
    /\ op = "none"
    /\ op' = "calculateMaxProfit"
    /\ range' = RiskRange
    /\ ret' = calculateMaxProfit(legs, currentPrice)
    /\ UNCHANGED <<legs, underlyingPrice, currentPrice, arg, pc, price, points, uiVars>>

CallMaxLoss ==
    /\ op = "none"
    /\ op' = "calculateMaxLoss"
    /\ range' = RiskRange
    /\ ret' = calculateMaxLoss(legs, currentPrice)
    /\ UNCHANGED <<legs, underlyingPrice, currentPrice, arg, pc, price, points, uiVars>>

NextRisk == CallMaxProfit \/ CallMaxLoss

SpecRisk == InitRisk /\ [][NextRisk]_vars

(***************************************************************************)
(* Claims about calculateMaxProfit and calculateMaxLoss (SpecRisk).        *)
(***************************************************************************)
RiskCurve == generatePayoffCurve(legs, currentPrice, RiskRange)

\* C11: calculateMaxProfit returns 'unlimited' exactly when, on the 50% curve,
\* pnl never decreases from one of the last 5 points to the next and some point
\* of the curve has pnl > 0; in every other case it returns the greatest pnl of
\* the curve's points (for a curve without points, the -Infinity of Math.max()).
C11_MaxProfit ==
    (op = "calculateMaxProfit") =>
        LET n       == Len(RiskCurve)
            tail    == { i \in 1..n : i > n - 5 }
            nonDecr == \A i \in tail :
                           (i - 1) \in tail => RiskCurve[i].pnl >= RiskCurve[i - 1].pnl
            somePos == \E i \in 1..n : RiskCurve[i].pnl > 0
        IN  /\ (ret = Unlimited) <=> (nonDecr /\ somePos)
            /\ (ret # Unlimited /\ n = 0) => ret = NegInfinity
            /\ (ret # Unlimited /\ n > 0) =>
                   /\ ret.kind = "number"
                   /\ \E i \in 1..n : RiskCurve[i].pnl = ret.value
                   /\ \A i \in 1..n : RiskCurve[i].pnl <= ret.value

\* A two-leg position whose greatest pnl is positive and is returned as a number.
C11_Witness ==
    /\ op = "calculateMaxProfit"
    /\ Len(legs) = 2
    /\ ret.kind = "number" /\ ret.value > 0

\* A position of long puts only: the tail of the curve is flat, the result is
\* 'unlimited'.
C11_FlatTailWitness ==
    /\ op = "calculateMaxProfit"
    /\ legs # <<>>
    /\ \A i \in 1..Len(legs) : legs[i].optionType = "put" /\ legs[i].side = "long"
    /\ ret = Unlimited

\* C12: calculateMaxLoss returns 'unlimited' exactly when, on the 50% curve, pnl
\* never increases from one of the first 5 points to the next and some point of
\* the curve has pnl < 0; in every other case it returns the least pnl of the
\* curve's points (for a curve without points, the Infinity of Math.min()).
C12_MaxLoss ==
    (op = "calculateMaxLoss") =>
        LET n       == Len(RiskCurve)
            head    == { i \in 1..n : i <= 5 }
            nonIncr == \A i \in head :
                           (i - 1) \in head => RiskCurve[i].pnl <= RiskCurve[i - 1].pnl
            someNeg == \E i \in 1..n : RiskCurve[i].pnl < 0
        IN  /\ (ret = Unlimited) <=> (nonIncr /\ someNeg)
            /\ (ret # Unlimited /\ n = 0) => ret = PosInfinity
            /\ (ret # Unlimited /\ n > 0) =>
                   /\ ret.kind = "number"
                   /\ \E i \in 1..n : RiskCurve[i].pnl = ret.value
                   /\ \A i \in 1..n : RiskCurve[i].pnl >= ret.value

\* A position of long calls only, whose first points are flat and negative: the
\* result is 'unlimited'.
C12_Witness ==
    /\ op = "calculateMaxLoss"
    /\ legs # <<>>
    /\ \A i \in 1..Len(legs) : legs[i].optionType = "call" /\ legs[i].side = "long"
    /\ ret = Unlimited

\* C13: for a single long call and currentPrice > 0, wherever the strike lies,
\* calculateMaxProfit returns 'unlimited'; for a single short call
\* calculateMaxLoss returns 'unlimited' and calculateMaxProfit returns a number.
C13_SingleCallRisk ==
    (Len(legs) = 1 /\ legs[1].optionType = "call" /\ currentPrice > 0) =>
        /\ (legs[1].side = "long" /\ op = "calculateMaxProfit") => ret = Unlimited
        /\ (legs[1].side = "short" /\ op = "calculateMaxLoss") => ret = Unlimited
        /\ (legs[1].side = "short" /\ op = "calculateMaxProfit") => ret.kind = "number"

\* C14: for currentPrice > 0, whenever calculateMaxLoss returns a number and not
\* 'unlimited', that number is negative or 0.
C14_MaxLossNotPositive ==
    (op = "calculateMaxLoss" /\ currentPrice > 0 /\ ret # Unlimited) =>
        (ret.kind = "number" /\ ret.value <= 0)

\* C15: for a non-empty leg set and a currentPrice other than 0, positive or
\* negative, calculateMaxProfit and calculateMaxLoss return 'unlimited' or a
\* finite number, never an infinity.
C15_FiniteResults ==
    (op \in {"calculateMaxProfit", "calculateMaxLoss"} /\ legs # <<>> /\ currentPrice # 0)
        => ret.kind \in {"unlimited", "number"}

(***************************************************************************)
(* calculateMarginRequirement.  A breakdown line is { description, amount };*)
(* the description, a template string in the source, is kept as the values *)
(* the template prints.                                                    *)
(***************************************************************************)
Description(kind, optionType, symbol, strike, longStrike) ==
    [ kind |-> kind, optionType |-> optionType, symbol |-> symbol,
      strike |-> strike, longStrike |-> longStrike ]

\* x * 0.20 and x * 0.10; the inputs drawn below make both quotients exact.
Times020(x) == x \div 5
Times010(x) == x \div 10

IsShort(l) == l.side = "short"
IsLong(l) == l.side = "long"

MatchingLong_SameInstrument(shortLeg, longLegs, processedLongs) ==
    LET matches == { j \in 1..Len(longLegs) :
                       /\ longLegs[j].id \notin processedLongs
                       /\ longLegs[j].optionType = shortLeg.optionType
                       /\ longLegs[j].instrument.symbol = shortLeg.instrument.symbol
                       /\ longLegs[j].quantity = shortLeg.quantity }
    IN  IF matches = {} THEN 0
        ELSE CHOOSE j \in matches : \A k \in matches : j <= k

MatchingLong_Last(shortLeg, longLegs, processedLongs) ==
    LET matches == { j \in 1..Len(longLegs) :
                       /\ longLegs[j].id \notin processedLongs
                       /\ longLegs[j].optionType = shortLeg.optionType
                       /\ longLegs[j].instrument.family = shortLeg.instrument.family
                       /\ longLegs[j].quantity = shortLeg.quantity }
    IN  IF matches = {} THEN 0
        ELSE CHOOSE j \in matches : \A k \in matches : j >= k

\* longLegs.find(...): the index of the first long leg that matches, 0 for none.
MatchingLong(shortLeg, longLegs, processedLongs) ==
    LET matches == { j \in 1..Len(longLegs) :
                       /\ longLegs[j].id \notin processedLongs
                       /\ longLegs[j].optionType = shortLeg.optionType
                       /\ longLegs[j].instrument.family = shortLeg.instrument.family
                       /\ longLegs[j].quantity = shortLeg.quantity }
    IN  IF matches = {} THEN 0
        ELSE CHOOSE j \in matches : \A k \in matches : j <= k

\* for (const shortLeg of shortLegs): try to pair spreads.
RECURSIVE PairSpreads(_, _, _, _)
PairSpreads(shortLegs, longLegs, i, st) ==
    IF i > Len(shortLegs) THEN st
    ELSE
        LET shortLeg == shortLegs[i]
            j        == MatchingLong(shortLeg, longLegs, st.processedLongs)
        IN  IF shortLeg.id \in st.processedShorts \/ j = 0
            THEN PairSpreads(shortLegs, longLegs, i + 1, st)
            ELSE
                LET matchingLong == longLegs[j]
                    strikeWidth  == Abs(shortLeg.strike - matchingLong.strike)
                    spreadMargin == strikeWidth * shortLeg.quantity
                                        * shortLeg.instrument.multiplier
                IN  PairSpreads(shortLegs, longLegs, i + 1,
                        [ breakdown       |-> Append(st.breakdown,
                              [ description |-> Description("spread", shortLeg.optionType,
                                                    "", shortLeg.strike, matchingLong.strike),
                                amount      |-> spreadMargin ]),
                          totalMargin     |-> st.totalMargin + spreadMargin,
                          marginType      |-> "spread",
                          processedShorts |-> st.processedShorts \cup {shortLeg.id},
                          processedLongs  |-> st.processedLongs \cup {matchingLong.id} ])

NakedMargin_Method1(shortLeg, c) ==
    LET multiplier      == shortLeg.instrument.multiplier
        quantity        == shortLeg.quantity
        strike          == shortLeg.strike
        otmAmount       == IF shortLeg.optionType = "call" /\ strike > c
                           THEN (strike - c) * multiplier * quantity
                           ELSE IF shortLeg.optionType = "put" /\ strike < c
                           THEN (c - strike) * multiplier * quantity
                           ELSE 0
    IN  Times020(c * multiplier * quantity)
            + shortLeg.premium * multiplier * quantity - otmAmount

NakedMargin(shortLeg, c) ==
    LET multiplier      == shortLeg.instrument.multiplier
        quantity        == shortLeg.quantity
        strike          == shortLeg.strike
        underlyingValue == c * multiplier * quantity
        premiumValue    == shortLeg.premium * multiplier * quantity
        otmAmount       == IF shortLeg.optionType = "call" /\ strike > c
                           THEN (strike - c) * multiplier * quantity
                           ELSE IF shortLeg.optionType = "put" /\ strike < c
                           THEN (c - strike) * multiplier * quantity
                           ELSE 0
        method1         == Times020(underlyingValue) + premiumValue - otmAmount
        method2         == Times010(strike * multiplier * quantity) + premiumValue
    IN  Max(method1, method2)

\* marginType after a naked line has been pushed.
NakedType_KeepSpread(marginType) ==
    IF marginType = "spread" THEN "spread" ELSE "naked"

NakedType(marginType) == "naked"

\* for (const shortLeg of shortLegs): the remaining naked shorts.
RECURSIVE ProcessNaked(_, _, _, _)
ProcessNaked(shortLegs, c, i, st) ==
    IF i > Len(shortLegs) THEN st
    ELSE
        LET shortLeg == shortLegs[i]
        IN  IF shortLeg.id \in st.processedShorts
            THEN ProcessNaked(shortLegs, c, i + 1, st)
            ELSE
                LET nakedMargin == NakedMargin(shortLeg, c)
                IN  ProcessNaked(shortLegs, c, i + 1,
                        [ st EXCEPT
                            !.breakdown   = Append(@,
                                [ description |-> Description("naked", shortLeg.optionType,
                                                      shortLeg.instrument.symbol,
                                                      shortLeg.strike, 0),
                                  amount      |-> nakedMargin ]),
                            !.totalMargin = @ + nakedMargin,
                            !.marginType  = NakedType(@) ])

RECURSIVE AddLongs_First(_, _, _)
AddLongs_First(longLegs, i, st) ==
    IF i > Len(longLegs) THEN st
    ELSE
        LET longLeg == longLegs[i]
        IN  IF longLeg.id \in st.processedLongs
            THEN AddLongs_First(longLegs, i + 1, st)
            ELSE
                LET longPremium == longLeg.premium * longLeg.quantity
                                       * longLeg.instrument.multiplier
                IN  AddLongs_First(longLegs, i + 1,
                        [ st EXCEPT
                            !.breakdown   =
                                << [ description |-> Description("long", longLeg.optionType,
                                                         longLeg.instrument.symbol,
                                                         longLeg.strike, 0),
                                     amount      |-> longPremium ] >> \o @,
                            !.totalMargin = @ + longPremium ])

RECURSIVE AddLongs_All(_, _, _)
AddLongs_All(longLegs, i, st) ==
    IF i > Len(longLegs) THEN st
    ELSE
        LET longLeg     == longLegs[i]
            longPremium == longLeg.premium * longLeg.quantity
                               * longLeg.instrument.multiplier
        IN  AddLongs_All(longLegs, i + 1,
                [ st EXCEPT
                    !.breakdown   = Append(@,
                        [ description |-> Description("long", longLeg.optionType,
                                              longLeg.instrument.symbol,
                                              longLeg.strike, 0),
                          amount      |-> longPremium ]),
                    !.totalMargin = @ + longPremium ])

\* for (const longLeg of longLegs): the remaining long positions.
RECURSIVE AddLongs(_, _, _)
AddLongs(longLegs, i, st) ==
    IF i > Len(longLegs) THEN st
    ELSE
        LET longLeg == longLegs[i]
        IN  IF longLeg.id \in st.processedLongs
            THEN AddLongs(longLegs, i + 1, st)
            ELSE
                LET longPremium == longLeg.premium * longLeg.quantity
                                       * longLeg.instrument.multiplier
                IN  AddLongs(longLegs, i + 1,
                        [ st EXCEPT
                            !.breakdown   = Append(@,
                                [ description |-> Description("long", longLeg.optionType,
                                                      longLeg.instrument.symbol,
                                                      longLeg.strike, 0),
                                  amount      |-> longPremium ]),
                            !.totalMargin = @ + longPremium ])

RECURSIVE LongPremium_OneContract(_, _, _)
LongPremium_OneContract(longLegs, i, sum) ==
    IF i > Len(longLegs) THEN sum
    ELSE LongPremium_OneContract(longLegs, i + 1,
             sum + longLegs[i].premium * longLegs[i].instrument.multiplier)

\* longLegs.reduce((sum, leg) => sum + premium * quantity * multiplier, 0)
RECURSIVE LongPremium(_, _, _)
LongPremium(longLegs, i, sum) ==
    IF i > Len(longLegs) THEN sum
    ELSE LongPremium(longLegs, i + 1,
             sum + longLegs[i].premium * longLegs[i].quantity
                       * longLegs[i].instrument.multiplier)

\* Math.round(totalMargin * 100) / 100
MarginTotal(totalMargin) == RoundCents(totalMargin)

calculateMarginRequirement(legList, c) ==
    IF Len(legList) = 0
    THEN [ margin |-> 0, marginType |-> "long-only", breakdown |-> <<>> ]
    ELSE
        LET shortLegs == SelectSeq(legList, IsShort)
            longLegs  == SelectSeq(legList, IsLong)
        IN  IF Len(shortLegs) = 0
            THEN
                LET longPremium == LongPremium(longLegs, 1, 0)
                IN  [ margin     |-> longPremium,
                      marginType |-> "long-only",
                      breakdown  |-> << [ description |->
                                              Description("long options", "", "", 0, 0),
                                          amount |-> longPremium ] >> ]
            ELSE
                LET start  == [ breakdown |-> <<>>, totalMargin |-> 0,
                                marginType |-> "long-only",
                                processedShorts |-> {}, processedLongs |-> {} ]
                    paired == PairSpreads(shortLegs, longLegs, 1, start)
                    naked  == ProcessNaked(shortLegs, c, 1, paired)
                    final  == AddLongs(longLegs, 1, naked)
                IN  [ margin     |-> MarginTotal(final.totalMargin),
                      marginType |-> final.marginType,
                      breakdown  |-> final.breakdown ]

(***************************************************************************)
(* The margin specification: calculateMarginRequirement applied to         *)
(* positions of calls and puts of three instruments in two families.       *)
(***************************************************************************)
MaxMarginLegs == 4

MarginPrices == { 100 * Dollar, 120 * Dollar }

MarginLegs ==
    { OptionLeg("SPX", "call", "short", 110 * Dollar, 2 * Dollar, 1),
      OptionLeg("SPX", "call", "short", 100 * Dollar, 5 * Dollar, 1),
      OptionLeg("SPX", "call", "long",  100 * Dollar, 5 * Dollar, 1),
      OptionLeg("SPX", "call", "long",  110 * Dollar, 2 * Dollar, 1),
      OptionLeg("SPX", "call", "long",  110 * Dollar, 1 * Dollar, 2),
      OptionLeg("MES", "call", "long",  90 * Dollar,  5 * Dollar, 1),
      OptionLeg("MNQ", "call", "long",  100 * Dollar, 20, 1),
      OptionLeg("SPX", "put",  "short", 90 * Dollar,  1 * Dollar, 1),
      OptionLeg("SPX", "put",  "short", 110 * Dollar, 12 * Dollar, 2),
      OptionLeg("SPX", "put",  "long",  100 * Dollar, 3 * Dollar, 1) }

InitMargin ==
    /\ currentPrice \in MarginPrices
    /\ \E s \in SeqsUpTo(MarginLegs, MaxMarginLegs) : legs = WithIds(s)
    /\ underlyingPrice = 0 /\ range = 0
    /\ Idle
    /\ Mounted

CallMarginRequirement ==
    /\ op = "none"
    /\ op' = "calculateMarginRequirement"
    /\ ret' = calculateMarginRequirement(legs, currentPrice)
    /\ UNCHANGED <<legs, underlyingPrice, currentPrice, range, arg, pc, price, points, uiVars>>

NextMargin == CallMarginRequirement

SpecMargin == InitMargin /\ [][NextMargin]_vars

(***************************************************************************)
(* Claims about calculateMarginRequirement (SpecMargin).                   *)
(***************************************************************************)
Margined == op = "calculateMarginRequirement"

RECURSIVE SumAmounts(_, _)
SumAmounts(breakdown, i) ==
    IF i > Len(breakdown) THEN 0
    ELSE breakdown[i].amount + SumAmounts(breakdown, i + 1)

\* premium x quantity x multiplier over the legs with index in S.
RECURSIVE PremiumOver(_)
PremiumOver(S) ==
    IF S = {} THEN 0
    ELSE LET i == CHOOSE x \in S : TRUE
         IN  legs[i].premium * legs[i].quantity * legs[i].instrument.multiplier
                 + PremiumOver(S \ {i})

\* C16: when no leg is short, the result is 'long-only' with margin the sum of
\* premium x quantity x multiplier over all legs; the breakdown is empty for an
\* empty leg set, one line whose amount is that sum otherwise.
C16_LongOnlyMargin ==
    (Margined /\ \A i \in 1..Len(legs) : legs[i].side # "short") =>
        /\ ret.marginType = "long-only"
        /\ ret.margin = PremiumOver(1..Len(legs))
        /\ (legs = <<>>) => ret.breakdown = <<>>
        /\ (legs # <<>>) => /\ Len(ret.breakdown) = 1
                            /\ ret.breakdown[1].amount = PremiumOver(1..Len(legs))

\* Three long legs of different instruments, one with a premium below a cent.
C16_Witness ==
    /\ Margined
    /\ Len(legs) = 3
    /\ \A i \in 1..3 : legs[i].side = "long"
    /\ \E i, j \in 1..3 : legs[i].instrument.multiplier # legs[j].instrument.multiplier
    /\ ret.margin % Cent # 0

\* One short call and one long call, of different strikes, the same quantity and
\* the same instrument family.
CallSpread ==
    /\ Len(legs) = 2
    /\ \E i, j \in 1..2 :
         /\ legs[i].side = "short" /\ legs[j].side = "long"
         /\ legs[i].optionType = "call" /\ legs[j].optionType = "call"
         /\ legs[i].strike # legs[j].strike
         /\ legs[i].quantity = legs[j].quantity
         /\ legs[i].instrument.family = legs[j].instrument.family

\* C17: for one short call and one long call with different strikes, the same
\* quantity and the same instrument family, the result is 'spread' and the margin
\* is |shortStrike - longStrike| x quantity x multiplier (the multiplier of the
\* short leg's instrument), whatever the premiums and currentPrice are.
C17_CallSpreadMargin ==
    (Margined /\ CallSpread) =>
        LET shortLeg == IF legs[1].side = "short" THEN legs[1] ELSE legs[2]
            longLeg  == IF legs[1].side = "short" THEN legs[2] ELSE legs[1]
        IN  /\ ret.marginType = "spread"
            /\ ret.margin = Abs(shortLeg.strike - longLeg.strike)
                                * shortLeg.quantity * shortLeg.instrument.multiplier

\* A call spread across two instruments of one family, the long leg added first.
C17_Witness ==
    /\ Margined /\ CallSpread
    /\ legs[1].side = "long"
    /\ legs[1].instrument.symbol # legs[2].instrument.symbol
    /\ legs[1].premium # legs[2].premium
    /\ ret.marginType = "spread"

\* The naked amount of a short leg as C18 states it.
NakedAmount(leg) ==
    LET m         == leg.instrument.multiplier
        q         == leg.quantity
        otmAmount == IF leg.optionType = "call" /\ leg.strike > currentPrice
                     THEN (leg.strike - currentPrice) * m * q
                     ELSE IF leg.optionType = "put" /\ leg.strike < currentPrice
                     THEN (currentPrice - leg.strike) * m * q
                     ELSE 0
        method1   == (20 * (currentPrice \div 100)) * m * q + leg.premium * m * q - otmAmount
        method2   == (10 * (leg.strike \div 100)) * m * q + leg.premium * m * q
    IN  IF method1 >= method2 THEN method1 ELSE method2

\* The short legs no long leg of the position can be paired with.
Unpairable ==
    { i \in 1..Len(legs) :
        /\ legs[i].side = "short"
        /\ \A j \in 1..Len(legs) :
              legs[j].side = "long" =>
                  \/ legs[j].optionType # legs[i].optionType
                  \/ legs[j].instrument.family # legs[i].instrument.family
                  \/ legs[j].quantity # legs[i].quantity }

Lines(kind) == { k \in 1..Len(ret.breakdown) : ret.breakdown[k].description.kind = kind }

ShortLegs == { i \in 1..Len(legs) : legs[i].side = "short" }

\* C18: every short leg left unpaired has a 'Naked' breakdown line whose amount
\* is max(method1, method2), and the result is then 'naked': each naked line
\* carries that amount for a short leg of the position, there is one naked line
\* for every short leg that has no spread line, a short leg that no long leg
\* matches has one, and a single short put has exactly that line.
C18_NakedMargin ==
    Margined =>
        /\ \A k \in Lines("naked") :
              \E i \in ShortLegs :
                  /\ ret.breakdown[k].description.optionType = legs[i].optionType
                  /\ ret.breakdown[k].description.symbol = legs[i].instrument.symbol
                  /\ ret.breakdown[k].description.strike = legs[i].strike
                  /\ ret.breakdown[k].amount = NakedAmount(legs[i])
        /\ Cardinality(Lines("naked")) + Cardinality(Lines("spread"))
               = Cardinality(ShortLegs)
        /\ \A i \in Unpairable :
              \E k \in Lines("naked") :
                  /\ ret.breakdown[k].description.strike = legs[i].strike
                  /\ ret.breakdown[k].amount = NakedAmount(legs[i])
        /\ (Lines("naked") # {}) => ret.marginType = "naked"
        /\ (Len(legs) = 1 /\ legs[1].side = "short") =>
              /\ Len(ret.breakdown) = 1
              /\ ret.breakdown[1].amount = NakedAmount(legs[1])
              /\ ret.marginType = "naked"

\* A single short put, out of the money, for which method2 is the greater.
C18_Witness ==
    /\ Margined
    /\ Len(legs) = 1
    /\ legs[1].side = "short" /\ legs[1].optionType = "put"
    /\ legs[1].strike < currentPrice
    /\ ret.marginType = "naked"
    /\ ret.breakdown[1].amount = (10 * (legs[1].strike \div 100)) * legs[1].instrument.multiplier
                                     * legs[1].quantity
                                 + legs[1].premium * legs[1].instrument.multiplier
                                     * legs[1].quantity

\* C19: marginType is 'naked' exactly when a short leg remained unpaired (it has
\* a naked line), 'spread' exactly when a short leg was paired (a spread line)
\* and none remained unpaired, 'long-only' exactly when no leg is short, and
\* never 'cash-secured'.
C19_MarginType ==
    Margined =>
        /\ (ret.marginType = "naked") <=> (Lines("naked") # {})
        /\ (ret.marginType = "spread") <=>
               (Lines("spread") # {} /\ Lines("naked") = {})
        /\ (ret.marginType = "long-only") <=> (ShortLegs = {})
        /\ ret.marginType # "cash-secured"
        /\ (Unpairable # {}) => ret.marginType = "naked"
        /\ (ShortLegs # {} /\ Unpairable = {} /\ Cardinality(ShortLegs) = 1)
               => ret.marginType = "spread"

\* One short leg paired and another left unpaired: 'naked' overrides 'spread'.
C19_Witness ==
    /\ Margined
    /\ Lines("spread") # {} /\ Lines("naked") # {}
    /\ ret.marginType = "naked"

\* C20: for every input the amounts of the breakdown lines, summed and rounded
\* to cents, are the returned margin.
C20_BreakdownSumsToMargin ==
    Margined => RoundCents(SumAmounts(ret.breakdown, 1)) = ret.margin

\* C21: for every permutation of the legs calculateMarginRequirement returns the
\* same margin and the same marginType as for the list itself.
C21_MarginOrderIrrelevant ==
    Margined =>
        \A f \in Orders(Len(legs)) :
            LET r == calculateMarginRequirement(Permuted(legs, f), currentPrice)
            IN  r.margin = ret.margin /\ r.marginType = ret.marginType

\* C22: the returned margin is non-negative and a whole number of cents, in the
\* long-only branch as well as in the spread/naked branch.
C22_MarginRoundedNonNegative ==
    Margined => (ret.margin >= 0 /\ ret.margin % Cent = 0)

\* The long legs of the position, by index, and the indices of a set in input
\* order.
LongLegs == { i \in 1..Len(legs) : legs[i].side = "long" }

InOrder(S) == SelectSeq([i \in 1..Len(legs) |-> i], LAMBDA i : i \in S)

\* Long leg j qualifies for short leg i.
Qualifies(i, j) ==
    /\ legs[j].optionType = legs[i].optionType
    /\ legs[j].instrument.family = legs[i].instrument.family
    /\ legs[j].quantity = legs[i].quantity

\* P pairs each short leg, visited in input order, with the earliest qualifying
\* long leg that no earlier short leg has claimed, and leaves it unpaired when
\* there is none.
IsGreedy(P) ==
    /\ \A p, q \in P : (p[1] = q[1]) <=> (p[2] = q[2])
    /\ \A i \in ShortLegs :
          LET claimed == { q[2] : q \in { x \in P : x[1] < i } }
              free    == { j \in LongLegs : Qualifies(i, j) /\ j \notin claimed }
          IN  IF free = {}
              THEN \A p \in P : p[1] # i
              ELSE \E p \in P : /\ p[1] = i
                                /\ p[2] \in free
                                /\ \A j \in free : p[2] <= j

GreedyPairs == CHOOSE P \in SUBSET (ShortLegs \X LongLegs) : IsGreedy(P)

PairedShorts == { p[1] : p \in GreedyPairs }
PairedLongs == { p[2] : p \in GreedyPairs }
LongOf(i) == CHOOSE j \in LongLegs : <<i, j>> \in GreedyPairs

SpreadLines == SelectSeq(ret.breakdown, LAMBDA l : l.description.kind = "spread")

\* C23: spread pairing is greedy and first-found: the spread lines are those of
\* the short legs, in input order, that are paired when every short leg takes
\* the earliest unclaimed long leg of its option type, family and quantity; no
\* long leg is paired twice, and a short leg left without one has a naked line.
C23_GreedyFirstFound ==
    (Margined /\ ShortLegs # {}) =>
        /\ \E P \in SUBSET (ShortLegs \X LongLegs) : IsGreedy(P)
        /\ Len(SpreadLines) = Cardinality(GreedyPairs)
        /\ \A k \in 1..Len(SpreadLines) :
              LET i == InOrder(PairedShorts)[k]
                  j == LongOf(i)
              IN  /\ SpreadLines[k].description.optionType = legs[i].optionType
                  /\ SpreadLines[k].description.strike = legs[i].strike
                  /\ SpreadLines[k].description.longStrike = legs[j].strike
                  /\ SpreadLines[k].amount = Abs(legs[i].strike - legs[j].strike)
                         * legs[i].quantity * legs[i].instrument.multiplier
        /\ Cardinality(Lines("naked")) = Cardinality(ShortLegs \ PairedShorts)
        /\ Cardinality(Lines("long")) = Cardinality(LongLegs \ PairedLongs)

\* A short leg with two qualifying long legs of different strikes is paired with
\* the earlier one.
C23_Witness ==
    /\ Margined
    /\ \E i \in PairedShorts : \E j \in LongLegs :
          /\ j > LongOf(i) /\ Qualifies(i, j)
          /\ legs[j].strike # legs[LongOf(i)].strike
          /\ SpreadLines[1].description.longStrike = legs[LongOf(i)].strike

\* The descriptions of the breakdown lines, in order.
Descriptions == [k \in 1..Len(ret.breakdown) |-> ret.breakdown[k].description]

SpreadDescription(i) ==
    Description("spread", legs[i].optionType, "", legs[i].strike, legs[LongOf(i)].strike)

LegDescription(kind, i) ==
    Description(kind, legs[i].optionType, legs[i].instrument.symbol, legs[i].strike, 0)

\* C24: with a short leg in the position the breakdown lists the spread lines
\* in the input order of their short legs, then the naked lines in the input
\* order of their short legs, then the leftover long lines in the input order of
\* the long legs.
C24_BreakdownOrder ==
    (Margined /\ ShortLegs # {}) =>
        LET spreads == InOrder(PairedShorts)
            nakeds  == InOrder(ShortLegs \ PairedShorts)
            longs   == InOrder(LongLegs \ PairedLongs)
        IN  Descriptions =
                [k \in 1..Len(spreads) |-> SpreadDescription(spreads[k])]
                \o [k \in 1..Len(nakeds) |-> LegDescription("naked", nakeds[k])]
                \o [k \in 1..Len(longs) |-> LegDescription("long", longs[k])]

\* A leftover long leg added first, a naked short leg added between the two legs
\* of a spread.
C24_Witness ==
    /\ Margined
    /\ Len(legs) = 4
    /\ 1 \in LongLegs \ PairedLongs
    /\ 2 \in PairedShorts /\ 3 \in ShortLegs \ PairedShorts /\ LongOf(2) = 4
    /\ Descriptions[1].kind = "spread"
    /\ Descriptions[2].kind = "naked"
    /\ Descriptions[3].kind = "long"

\* The number of breakdown lines that carry description d.
LinesWith(d) == Cardinality({ k \in 1..Len(ret.breakdown) : ret.breakdown[k].description = d })

\* C28: with a short leg in the position and distinct leg ids every leg is
\* accounted for by exactly one breakdown line: one spread line for each pair,
\* one naked line for each unpaired short leg, one long line for each unpaired
\* long leg, so that lines = pairs + unpaired shorts + unpaired longs and
\* 2 x pairs + unpaired shorts + unpaired longs = legs.
C28_EveryLegOneLine ==
    (Margined /\ ShortLegs # {}) =>
        LET pairs          == Cardinality(Lines("spread"))
            unpairedShorts == ShortLegs \ PairedShorts
            unpairedLongs  == LongLegs \ PairedLongs
        IN  /\ pairs = Cardinality(GreedyPairs)
            /\ \A i \in PairedShorts :
                  LinesWith(SpreadDescription(i)) =
                      Cardinality({ x \in PairedShorts :
                                      SpreadDescription(x) = SpreadDescription(i) })
            /\ \A i \in unpairedShorts :
                  LinesWith(LegDescription("naked", i)) =
                      Cardinality({ x \in unpairedShorts :
                                      LegDescription("naked", x) = LegDescription("naked", i) })
            /\ \A i \in unpairedLongs :
                  LinesWith(LegDescription("long", i)) =
                      Cardinality({ x \in unpairedLongs :
                                      LegDescription("long", x) = LegDescription("long", i) })
            /\ Len(ret.breakdown) = pairs + Cardinality(unpairedShorts)
                                        + Cardinality(unpairedLongs)
            /\ 2 * pairs + Cardinality(unpairedShorts) + Cardinality(unpairedLongs)
                   = Len(legs)

\* A pair, an unpaired short leg and an unpaired long leg in one position.
C28_Witness ==
    /\ Margined
    /\ Len(legs) = 4
    /\ Cardinality(GreedyPairs) = 1
    /\ ShortLegs \ PairedShorts # {}
    /\ LongLegs \ PairedLongs # {}
    /\ Len(ret.breakdown) = 3

(***************************************************************************)
(* Further claims about calculateBreakevens (SpecAnalytics) and            *)
(* calculateMaxProfit (SpecRisk).                                          *)
(***************************************************************************)
BreakevenCurve == generatePayoffCurve(legs, currentPrice, BreakevenRange)

\* The adjacent pairs of samples whose pnl are both exactly 0.
ZeroPairs ==
    { i \in 2..Len(BreakevenCurve) :
        BreakevenCurve[i - 1].pnl = 0 /\ BreakevenCurve[i].pnl = 0 }

\* The adjacent pairs for which the interpolation is computed.
Interpolated ==
    { i \in 2..Len(BreakevenCurve) :
        \/ BreakevenCurve[i - 1].pnl < 0 /\ BreakevenCurve[i].pnl >= 0
        \/ BreakevenCurve[i - 1].pnl >= 0 /\ BreakevenCurve[i].pnl < 0 }

\* C25: a pair of adjacent samples with pnl 0 and 0 adds no breakeven, and the
\* denominator |p0.pnl| + |p1.pnl| of every interpolation that is computed is
\* strictly positive: the breakevens are one number for each interpolated pair,
\* none for the other pairs, each a price of the curve's window.
C25_NoZeroDenominator ==
    (op = "calculateBreakevens") =>
        /\ ZeroPairs \cap Interpolated = {}
        /\ \A i \in Interpolated :
              Abs(BreakevenCurve[i - 1].pnl) + Abs(BreakevenCurve[i].pnl) > 0
        /\ Len(ret) = Cardinality(Interpolated)
        /\ \A k \in 1..Len(ret) :
              /\ BreakevenCurve[1].price <= ret[k]
              /\ ret[k] <= BreakevenCurve[Len(BreakevenCurve)].price

\* A curve with adjacent samples of pnl 0, none of which adds a breakeven.
C25_Witness ==
    /\ op = "calculateBreakevens"
    /\ legs # <<>>
    /\ ZeroPairs # {}
    /\ Len(ret) = Cardinality(Interpolated)

\* C27: the breakevens returned by calculateBreakevens are strictly increasing,
\* also when a sample with pnl 0 lies between two samples with negative pnl.
C27_BreakevensStrictlyIncreasing ==
    (op = "calculateBreakevens") =>
        \A k \in 1..(Len(ret) - 1) : ret[k] < ret[k + 1]

\* C29: when pnl is constant across the last 5 samples of the 50% curve,
\* calculateMaxProfit returns the greatest pnl of the curve and not 'unlimited'.
C29_CappedProfitFinite ==
    ( /\ op = "calculateMaxProfit"
      /\ currentPrice > 0
      /\ Len(RiskCurve) >= TailLength
      /\ \A i \in (Len(RiskCurve) - TailLength + 1)..Len(RiskCurve) :
            RiskCurve[i].pnl = RiskCurve[Len(RiskCurve)].pnl )
    => ret = MaxPnL(RiskCurve)

(***************************************************************************)
(* The position editor: PositionBuilder builds a leg from its form and     *)
(* hands it to the handlers of Index, which keep the legs of the position. *)
(* The form fields are inputs of the actions.                              *)
(***************************************************************************)
\* setLegs((prev) => [...prev, leg])
onAddLeg(prev, leg) == Append(prev, leg)

\* setLegs((prev) => prev.filter((leg) => leg.id !== id))
onRemoveLeg(prev, id) == SelectSeq(prev, LAMBDA leg : leg.id # id)

\* setLegs((prev) => prev.map((leg) => leg.id === id ? { ...leg, ...updates } : leg))
onUpdateLeg(prev, id, updates) ==
    [ i \in 1..Len(prev) |->
        IF prev[i].id = id
        THEN [ prev[i] EXCEPT !.strike     = updates.strike,
                              !.premium    = updates.premium,
                              !.quantity   = updates.quantity,
                              !.optionType = updates.optionType,
                              !.side       = updates.side,
                              !.legType    = updates.legType ]
        ELSE prev[i] ]

\* The updates saveEditing passes to onUpdateLeg.
saveEditing(editValues) ==
    [ strike     |-> editValues.strike,
      premium    |-> IF editValues.legType = "future" THEN 0 ELSE editValues.premium,
      quantity   |-> editValues.quantity,
      optionType |-> editValues.optionType,
      side       |-> editValues.side,
      legType    |-> editValues.legType ]

\* prevLegs.map(leg => ({ ...leg, instrument, legType: leg.legType || 'option' }))
WithInstrument(prevLegs, instrument) ==
    [ i \in 1..Len(prevLegs) |-> [ prevLegs[i] EXCEPT !.instrument = instrument ] ]

MaxEditorLegs == 2
MaxClock == 2

EditorStrikes == { 5850 * Dollar, 5900 * Dollar }
EditorPremiums == { 5 * Dollar }
EditorQuantities == { 1 }

InitEditor ==
    /\ legs = <<>>
    /\ currentPrice = DEFAULT_PRICES["SPX"]
    /\ underlyingPrice = 0 /\ range = 0
    /\ Idle
    /\ Mounted

\* Everything the editor actions leave alone.
EditorFrame ==
    UNCHANGED <<underlyingPrice, range, op, arg, ret, pc, price, points, activeGroupId,
                searchQuery, searchResults, isSearching, showResults, timer, inflight>>

\* A millisecond passes.
Tick ==
    /\ clock < MaxClock
    /\ clock' = clock + 1
    /\ UNCHANGED <<legs, selectedInstrument, selectedStock, currentPrice, simulatedPrice>>
    /\ EditorFrame

AddLeg ==
    /\ Len(legs) < MaxEditorLegs
    /\ \E legType \in {"option", "future"}, optionType \in {"call", "put"},
          side \in {"long", "short"}, strike \in EditorStrikes,
          premium \in EditorPremiums, quantity \in EditorQuantities :
         legs' = onAddLeg(legs, handleAddLeg(clock, selectedInstrument, legType,
                                             optionType, side, strike, premium, quantity))
    /\ UNCHANGED <<clock, selectedInstrument, selectedStock, currentPrice, simulatedPrice>>
    /\ EditorFrame

AddFutureLeg ==
    /\ Len(legs) < MaxEditorLegs
    /\ \E futureSide \in {"long", "short"}, entryPrice \in EditorStrikes,
          quantity \in EditorQuantities :
         legs' = onAddLeg(legs, handleAddFutureLeg(clock, selectedInstrument, futureSide,
                                                   entryPrice, quantity))
    /\ UNCHANGED <<clock, selectedInstrument, selectedStock, currentPrice, simulatedPrice>>
    /\ EditorFrame

RemoveLeg ==
    /\ \E i \in 1..Len(legs) : legs' = onRemoveLeg(legs, legs[i].id)
    /\ UNCHANGED <<clock, selectedInstrument, selectedStock, currentPrice, simulatedPrice>>
    /\ EditorFrame

UpdateLeg ==
    /\ \E i \in 1..Len(legs) :
         \E editValues \in [ strike : EditorStrikes, premium : EditorPremiums,
                             quantity : EditorQuantities, optionType : {"call", "put"},
                             side : {"long", "short"}, legType : {"option", "future"} ] :
            legs' = onUpdateLeg(legs, legs[i].id, saveEditing(editValues))
    /\ UNCHANGED <<clock, selectedInstrument, selectedStock, currentPrice, simulatedPrice>>
    /\ EditorFrame

handleInstrumentSelect ==
    /\ \E k \in 1..Len(instruments) :
         /\ selectedInstrument' = instruments[k]
         /\ currentPrice' = DEFAULT_PRICES[instruments[k].symbol]
         /\ simulatedPrice' = DEFAULT_PRICES[instruments[k].symbol]
         /\ legs' = WithInstrument(legs, instruments[k])
    /\ selectedStock' = None
    /\ UNCHANGED clock
    /\ EditorFrame

NextEditor ==
    Tick \/ AddLeg \/ AddFutureLeg \/ RemoveLeg \/ UpdateLeg \/ handleInstrumentSelect

SpecEditor == InitEditor /\ [][NextEditor]_vars

\* C26: after any sequence of add-leg, remove-leg and update-leg operations the
\* legs of the position have pairwise distinct ids, also when two legs are added
\* within one millisecond.
C26_DistinctIds ==
    \A i, j \in 1..Len(legs) : legs[i].id = legs[j].id => i = j

(***************************************************************************)
(* The stock search box.  Texts are sequences of characters; Chars gives   *)
(* the characters of the symbols and names of the stocks.                  *)
(***************************************************************************)
LowerOf ==
    ("A" :> "a") @@ ("B" :> "b") @@ ("C" :> "c") @@ ("D" :> "d")
    @@ ("E" :> "e") @@ ("F" :> "f") @@ ("G" :> "g") @@ ("H" :> "h")
    @@ ("I" :> "i") @@ ("J" :> "j") @@ ("K" :> "k") @@ ("L" :> "l")
    @@ ("M" :> "m") @@ ("N" :> "n") @@ ("O" :> "o") @@ ("P" :> "p")
    @@ ("Q" :> "q") @@ ("R" :> "r") @@ ("S" :> "s") @@ ("T" :> "t")
    @@ ("U" :> "u") @@ ("V" :> "v") @@ ("W" :> "w") @@ ("X" :> "x")
    @@ ("Y" :> "y") @@ ("Z" :> "z")

\* s.toLowerCase()
ToLowerCase(s) ==
    [ i \in 1..Len(s) |-> IF s[i] \in DOMAIN LowerOf THEN LowerOf[s[i]] ELSE s[i] ]

\* s.includes(q)
Includes(s, q) ==
    \E i \in 0..(Len(s) - Len(q)) : SubSeq(s, i + 1, i + Len(q)) = q

\* s.trim()
Trim(s) ==
    LET kept == { i \in 1..Len(s) : s[i] # " " }
    IN  IF kept = {} THEN <<>>
        ELSE SubSeq(s, CHOOSE i \in kept : \A j \in kept : i <= j,
                       CHOOSE i \in kept : \A j \in kept : i >= j)

Chars ==
    ("AAPL" :> <<"A", "A", "P", "L">>)
    @@ ("Apple Inc." :>
        <<"A", "p", "p", "l", "e", " ", "I", "n", "c", ".">>)
    @@ ("TSLA" :> <<"T", "S", "L", "A">>)
    @@ ("Tesla Inc." :>
        <<"T", "e", "s", "l", "a", " ", "I", "n", "c", ".">>)
    @@ ("GOOGL" :> <<"G", "O", "O", "G", "L">>)
    @@ ("Alphabet Inc." :>
        <<"A", "l", "p", "h", "a", "b", "e", "t", " ", "I", "n", "c",
          ".">>)
    @@ ("MSFT" :> <<"M", "S", "F", "T">>)
    @@ ("Microsoft Corp." :>
        <<"M", "i", "c", "r", "o", "s", "o", "f", "t", " ", "C", "o",
          "r", "p", ".">>)
    @@ ("AMZN" :> <<"A", "M", "Z", "N">>)
    @@ ("Amazon.com Inc." :>
        <<"A", "m", "a", "z", "o", "n", ".", "c", "o", "m", " ", "I",
          "n", "c", ".">>)
    @@ ("NVDA" :> <<"N", "V", "D", "A">>)
    @@ ("NVIDIA Corp." :>
        <<"N", "V", "I", "D", "I", "A", " ", "C", "o", "r", "p", ".">>)
    @@ ("META" :> <<"M", "E", "T", "A">>)
    @@ ("Meta Platforms Inc." :>
        <<"M", "e", "t", "a", " ", "P", "l", "a", "t", "f", "o", "r",
          "m", "s", " ", "I", "n", "c", ".">>)
    @@ ("AMD" :> <<"A", "M", "D">>)
    @@ ("Advanced Micro Devices" :>
        <<"A", "d", "v", "a", "n", "c", "e", "d", " ", "M", "i", "c",
          "r", "o", " ", "D", "e", "v", "i", "c", "e", "s">>)

popularStocks ==
    << [ symbol |-> "AAPL", name |-> "Apple Inc.", type |-> "stock", multiplier |-> 100 ],
       [ symbol |-> "TSLA", name |-> "Tesla Inc.", type |-> "stock", multiplier |-> 100 ],
       [ symbol |-> "GOOGL", name |-> "Alphabet Inc.", type |-> "stock", multiplier |-> 100 ],
       [ symbol |-> "MSFT", name |-> "Microsoft Corp.", type |-> "stock", multiplier |-> 100 ],
       [ symbol |-> "AMZN", name |-> "Amazon.com Inc.", type |-> "stock", multiplier |-> 100 ],
       [ symbol |-> "NVDA", name |-> "NVIDIA Corp.", type |-> "stock", multiplier |-> 100 ],
       [ symbol |-> "META", name |-> "Meta Platforms Inc.", type |-> "stock", multiplier |-> 100 ],
       [ symbol |-> "AMD", name |-> "Advanced Micro Devices", type |-> "stock", multiplier |-> 100 ] >>

\* popularStocks.filter(s => s.symbol.toLowerCase().includes(query.toLowerCase())
\*                        || s.name.toLowerCase().includes(query.toLowerCase()))
Fallback(query) ==
    SelectSeq(popularStocks,
              LAMBDA s : \/ Includes(ToLowerCase(Chars[s.symbol]), ToLowerCase(query))
                         \/ Includes(ToLowerCase(Chars[s.name]), ToLowerCase(query)))

\* quotes.filter(q => q.quoteType === 'EQUITY' && q.symbol && q.shortname)
\*       .slice(0, 10).map(...)
FromQuotes(quotes) ==
    LET equities == SelectSeq(quotes, LAMBDA q : /\ q.quoteType = "EQUITY"
                                                  /\ q.symbol # ""
                                                  /\ q.shortname # "")
        first10  == IF Len(equities) <= 10 THEN equities ELSE SubSeq(equities, 1, 10)
    IN  [ k \in 1..Len(first10) |->
            [ symbol |-> first10[k].symbol, name |-> first10[k].shortname,
              type |-> "stock", multiplier |-> 100 ] ]

\* The answers of the search service to a query, as far as the model goes: no
\* quotes at all, or a fund followed by the first two of the stocks that
\* match.
ServiceQuotes(query) ==
    LET matching == Fallback(query)
        first2   == IF Len(matching) <= 2 THEN matching ELSE SubSeq(matching, 1, 2)
    IN  { <<>>,
          << [ symbol |-> "SPY", shortname |-> "SPDR S&P 500", quoteType |-> "ETF" ] >>
              \o [ k \in 1..Len(first2) |->
                     [ symbol |-> first2[k].symbol, shortname |-> first2[k].name,
                       quoteType |-> "EQUITY" ] ] }

\* The values searchStocks(query) resolves to: [] for an empty query, the
\* stocks of the service's answer, or the fallback when the request fails.
searchStocks(query) ==
    IF query = <<>> THEN { <<>> }
    ELSE { FromQuotes(quotes) : quotes \in ServiceQuotes(query) } \cup { Fallback(query) }

\* stockAsInstrument of handleStockSelect.
StockAsInstrument(stock) ==
    [ symbol |-> stock.symbol, type |-> "stock", multiplier |-> stock.multiplier ]

MaxInflight == 2

Queries == { <<>>, <<" ">>, <<"a">>, <<"A", "m">> }

GroupIds == { "tech", "ev", "semiconductors", "finance" }

InitSearch ==
    /\ legs = <<>>
    /\ currentPrice = DEFAULT_PRICES["SPX"]
    /\ underlyingPrice = 0 /\ range = 0
    /\ Idle
    /\ Mounted

\* Everything the search box leaves alone.
SearchFrame == UNCHANGED <<underlyingPrice, range, op, arg, ret, pc, price, points, clock>>

\* The effect of useEffect(..., [searchQuery]) after searchQuery became q: the
\* cleanup clears the pending timer; an empty query empties the results and
\* closes the dropdown, any other sets a new timer.
QueryEffect(q) ==
    IF Trim(q) = <<>>
    THEN /\ searchResults' = <<>>
         /\ showResults' = FALSE
         /\ timer' = <<>>
    ELSE /\ timer' = <<q>>
         /\ UNCHANGED <<searchResults, showResults>>

\* onChange of the search box.
Type ==
    /\ \E q \in Queries \ {searchQuery} :
         /\ searchQuery' = q
         /\ QueryEffect(q)
    /\ UNCHANGED <<isSearching, inflight, legs, currentPrice, selectedInstrument,
                   selectedStock, simulatedPrice, activeGroupId>>
    /\ SearchFrame

\* The debounce timer fires: the search for its query is started.
TimerFires ==
    /\ timer # <<>>
    /\ Len(inflight) < MaxInflight
    /\ isSearching' = TRUE
    /\ inflight' = Append(inflight, timer[1])
    /\ timer' = <<>>
    /\ UNCHANGED <<searchQuery, searchResults, showResults, legs, currentPrice,
                   selectedInstrument, selectedStock, simulatedPrice, activeGroupId>>
    /\ SearchFrame

\* A search that was started resolves: its results are stored and shown.
Respond ==
    /\ \E i \in 1..Len(inflight) :
         /\ \E results \in searchStocks(inflight[i]) : searchResults' = results
         /\ inflight' = SubSeq(inflight, 1, i - 1) \o SubSeq(inflight, i + 1, Len(inflight))
    /\ showResults' = TRUE
    /\ isSearching' = FALSE
    /\ UNCHANGED <<searchQuery, timer, legs, currentPrice, selectedInstrument,
                   selectedStock, simulatedPrice, activeGroupId>>
    /\ SearchFrame

\* handleSelectStock, from the dropdown or from the list of popular stocks,
\* with handleStockSelect of Index as onSelectStock.
SelectStock ==
    /\ \E stock \in
           { searchResults[k] : k \in { j \in 1..Len(searchResults) : showResults } }
           \cup { popularStocks[k] : k \in { j \in 1..Len(popularStocks) :
                                               activeGroupId = None } } :
         /\ selectedStock' = stock
         /\ selectedInstrument' = StockAsInstrument(stock)
         /\ legs' = WithInstrument(legs, StockAsInstrument(stock))
    /\ currentPrice' = STOCK_DEFAULT_PRICE
    /\ simulatedPrice' = STOCK_DEFAULT_PRICE
    /\ searchQuery' = <<>>
    /\ IF searchQuery # <<>>
       THEN QueryEffect(<<>>)
       ELSE /\ showResults' = FALSE
            /\ UNCHANGED <<searchResults, timer>>
    /\ activeGroupId' = None
    /\ UNCHANGED <<isSearching, inflight>>
    /\ SearchFrame

\* A click on the badge of a stock group.
SelectGroup ==
    /\ \E g \in GroupIds : activeGroupId' = IF activeGroupId = g THEN None ELSE g
    /\ UNCHANGED <<searchQuery, searchResults, isSearching, showResults, timer, inflight,
                   legs, currentPrice, selectedInstrument, selectedStock, simulatedPrice>>
    /\ SearchFrame

NextSearch == Type \/ TimerFires \/ Respond \/ SelectStock \/ SelectGroup

SpecSearch == InitSearch /\ [][NextSearch]_vars

\* The user has stopped typing and every search that was started has completed.
Quiescent == timer = <<>> /\ inflight = <<>>

\* {showResults && searchResults.length > 0 && (...)}: the dropdown is rendered.
DropdownOpen == showResults /\ searchResults # <<>>

\* C30: once the user has stopped typing and every started search has completed,
\* the stored results are those of the search for the latest query, and for an
\* empty latest query they are empty and the dropdown is hidden.
C30_ResultsOfLatestQuery ==
    Quiescent =>
        IF Trim(searchQuery) = <<>>
        THEN searchResults = <<>> /\ ~DropdownOpen
        ELSE searchResults \in searchStocks(searchQuery)

====
